---- MODULE Spec2Model ----
(***************************************************************************)
(* A model of two programs of the repository:                              *)
(*                                                                         *)
(*   src/tests/python/operators.py            the operator test script:    *)
(*       the fixture table and the command-line dispatch of main()         *)
(*   src/release/scripts/modules/rna_user_menus_ui.py   the user-menus     *)
(*       preference panel: get_keymap and the draw_* functions             *)
(*                                                                         *)
(* SpecMain runs main() one loop iteration per step over bounded argument  *)
(* lists.  SpecUI applies draw_user_menus and get_keymap, each as one      *)
(* step, to bounded host states (menu groups, menu items, keymaps).        *)
(*                                                                         *)
(* Python's None is modelled by an empty value of the type at hand: 0 for  *)
(* a group, <<>> for a menu item or a keymap item, "" for an idname.       *)
(* Python's 0-based list index k is TLA+'s sequence index k + 1.           *)
(***************************************************************************)
EXTENDS Integers, Sequences, FiniteSets

VARIABLES
    \* ---- operators.py ----
    argv,            \* sys.argv
    pc,              \* position of main(): "loop", "done", "error"
    i,               \* the loop variable of enumerate(command), 0-based
    calls,           \* the calls made on operators_test, in order
    operators_test,  \* the OperatorTest object built by main()
    \* ---- rna_user_menus_ui.py (host state) ----
    menus,           \* user_menus.menus: the menu groups, in order
    active_group,    \* user_menus.active_group: index into menus, 0 = unset
    active_item,     \* user_menus.active_item: an item, <<>> = unset
    expanded,        \* user_menus.expanded
    items,           \* the menu items: item |-> [type, is_selected, sub]
    keymaps,         \* keyconfigs.user.keymaps, in order
    \* ---- rna_user_menus_ui.py (what the last call did) ----
    last,            \* the last operation applied and its arguments
    ret,             \* what the last get_keymap returned (<<>> = None)
    ui,              \* the layout calls the last draw_user_menus issued
    before           \* the host state on entry to the last operation

mainVars == <<argv, pc, i, calls, operators_test>>
hostVars == <<menus, active_group, active_item, expanded, items, keymaps>>
uiVars   == <<hostVars, last, ret, ui, before>>
vars     == <<mainVars, uiVars>>

(***************************************************************************)
(* Bounds of the model.                                                    *)
(***************************************************************************)
MaxArgs   == 3    \* arguments after argv[0]
MaxGroups == 2    \* menu groups in user_menus.menus
MaxList   == 2    \* top-level items of a list group's current menu
MaxDepth  == 2    \* levels of submenu nesting below a top-level item
MaxSub    == 2    \* items of a submenu's items_list
MaxKmi0   == 2    \* keymap items of the user keyconfig at the start
MaxKmi    == MaxKmi0 + 1    \* keymap items beyond which none is created

(***************************************************************************)
(*                       src/tests/python/operators.py                     *)
(***************************************************************************)

MONKEY_LOOP_VERT ==
    {68, 69, 71, 73, 74, 75, 76, 77, 90, 129, 136, 175, 188, 189, 198, 207, 216, 223, 230, 301, 302, 303, 304, 305, 306, 307, 308}

MONKEY_LOOP_EDGE ==
    {131, 278, 299, 305, 307, 334, 337, 359, 384, 396, 399, 412, 415, 560, 567, 572, 577, 615, 622, 627, 632, 643, 648, 655, 660, 707}

\* A faulty variant of tests: an entry written without its case name.
tests_six ==
    <<
       <<"FACE", 0..5, "testCubeBisect", "expectedCubeBisect",
         "bisect", [plane_co |-> <<0, 0, 0>>, plane_no |-> <<0, 1, 1>>, clear_inner |-> TRUE, use_fill |-> TRUE]>>
    >>

\* tests = [...]: the fixture table of main().  A float is written as the
\* string of its literal.
tests ==
    <<
       <<"FACE", 0..5, "CubeBisect",
         "testCubeBisect", "expectedCubeBisect",
         "bisect", [plane_co |-> <<0, 0, 0>>, plane_no |-> <<0, 1, 1>>, clear_inner |-> TRUE, use_fill |-> TRUE]>>,
       <<"FACE", 0..5, "CubeBlendFromShape",
         "testCubeBlendFromShape", "expectedCubeBlendFromShape",
         "blend_from_shape", [shape |-> "Key 1"]>>,
       <<"FACE", 0..1, "CubeBridgeEdgeLoop",
         "testCubeBrigeEdgeLoop", "expectedCubeBridgeEdgeLoop",
         "bridge_edge_loops", <<>>>>,
       <<"FACE", 0..499, "MonkeyDecimate",
         "testMonkeyDecimate", "expectedMonkeyDecimate",
         "decimate", [ratio |-> "0.1"]>>,
       <<"VERT", {3}, "CubeDeleteVertices",
         "testCubeDeleteVertices", "expectedCubeDeleteVertices",
         "delete", <<>>>>,
       <<"FACE", {0}, "CubeDeleteFaces",
         "testCubeDeleteFaces", "expectedCubeDeleteFaces",
         "delete", <<>>>>,
       <<"EDGE", 0..3, "CubeDeleteEdges",
         "testCubeDeleteEdges", "expectedCubeDeleteEdges",
         "delete", <<>>>>,
       <<"VERT", MONKEY_LOOP_VERT, "MonkeyDeleteEdgeLoopVertices",
         "testMokneyDeleteEdgeLoopVertices", "expectedMonkeyDeleteEdgeLoopVertices",
         "delete_edgeloop", <<>>>>,
       <<"EDGE", MONKEY_LOOP_EDGE, "MonkeyDeleteEdgeLoopEdges",
         "testMokneyDeleteEdgeLoopEdges", "expectedMonkeyDeleteEdgeLoopEdges",
         "delete_edgeloop", <<>>>>,
       <<"VERT", 0..11, "CubeDeleteLooseVertices",
         "testCubeDeleteLooseVertices", "expectedCubeDeleteLooseVertices",
         "delete_loose", [use_verts |-> TRUE, use_edges |-> FALSE, use_faces |-> FALSE]>>,
       <<"EDGE", 0..13, "CubeDeleteLooseEdges",
         "testCubeDeleteLooseEdges", "expectedCubeDeleteLooseEdges",
         "delete_loose", [use_verts |-> FALSE, use_edges |-> TRUE, use_faces |-> FALSE]>>,
       <<"FACE", 0..6, "CubeDeleteLooseFaces",
         "testCubeDeleteLooseFaces", "expectedCubeDeleteLooseFaces",
         "delete_loose", [use_verts |-> FALSE, use_edges |-> FALSE, use_faces |-> TRUE]>>,
       <<"VERT", 0..7, "CubeDissolveDegenerate",
         "testCubeDissolveDegenerate", "expectedCubeDissolveDegenerate",
         "dissolve_degenerate", <<>>>>,
       <<"EDGE", {0, 5, 6, 9}, "CylinderDissolveEdges",
         "testCylinderDissolveEdges", "expectedCylinderDissolveEdges",
         "dissolve_edges", <<>>>>,
       <<"VERT", {5, 34, 47, 49, 83, 91, 95}, "CubeDissolveFaces",
         "testCubeDissolveFaces", "expectedCubeDissolveFaces",
         "dissolve_faces", <<>>>>,
       <<"VERT", {16, 20, 22, 23, 25}, "CubeDissolveVerts",
         "testCubeDissolveVerts", "expectedCubeDissolveVerts",
         "dissolve_verts", <<>>>>,
       <<"VERT", (0..32) \ {23}, "ConeDuplicateVertices",
         "testConeDuplicateVertices", "expectedConeDuplicateVertices",
         "duplicate", <<>>>>,
       <<"VERT", {23}, "ConeDuplicateOneVertex",
         "testConeDuplicateOneVertex", "expectedConeDuplicateOneVertex",
         "duplicate", <<>>>>,
       <<"FACE", {6, 9}, "ConeDuplicateFaces",
         "testConeDuplicateFaces", "expectedConeDuplicateFaces",
         "duplicate", <<>>>>,
       <<"EDGE", 0..63, "ConeDuplicateEdges",
         "testConeDuplicateEdges", "expectedConeDuplicateEdges",
         "duplicate", <<>>>>,
       <<"EDGE", {1, 4, 9}, "CylinderEdgeCollapse",
         "testCylinderEdgeCollapse", "expectedCylinderEdgeCollapse",
         "edge_collapse", <<>>>>,
       <<"VERT", {1, 3, 4, 5, 7}, "CubeEdgeFaceAddFace",
         "testCubeEdgeFaceAddFace", "expectedCubeEdgeFaceAddFace",
         "edge_face_add", <<>>>>,
       <<"VERT", 4..5, "CubeEdgeFaceAddEdge",
         "testCubeEdgeFaceAddEdge", "expectedCubeEdgeFaceAddEdge",
         "edge_face_add", <<>>>>,
       <<"EDGE", {1}, "CubeEdgeRotate",
         "testCubeEdgeRotate", "expectedCubeEdgeRotate",
         "edge_rotate", <<>>>>,
       <<"EDGE", {2, 5, 8, 11, 14, 17, 20, 23}, "CubeEdgeSplit",
         "testCubeEdgeSplit", "expectedCubeEdgeSplit",
         "edge_split", <<>>>>,
       <<"FACE", 0..499, "MonkeyFaceMakePlanar",
         "testMonkeyFaceMakePlanar", "expectedMonkeyFaceMakePlanar",
         "face_make_planar", <<>>>>,
       <<"VERT", 0..5, "PlaneFaceSplitByEdges",
         "testPlaneFaceSplitByEdges", "expectedPlaneFaceSplitByEdges",
         "face_split_by_edges", <<>>>>,
       <<"EDGE", {20, 21, 22, 23, 24, 45, 46, 47, 48, 49}, "IcosphereFill",
         "testIcosphereFill", "expectedIcosphereFill",
         "fill", <<>>>>,
       <<"EDGE", {20, 21, 22, 23, 24, 45, 46, 47, 48, 49}, "IcosphereFillUseBeautyFalse",
         "testIcosphereFillUseBeautyFalse", "expectedIcosphereFillUseBeautyFalse",
         "fill", [use_beauty |-> FALSE]>>,
       <<"EDGE", {1, 2, 3, 4, 5, 7, 9, 10, 11, 12, 13, 15}, "PlaneFillGrid",
         "testPlaneFillGrid", "expectedPlaneFillGrid",
         "fill_grid", <<>>>>,
       <<"EDGE", {1, 2, 3, 4, 5, 7, 9, 10, 11, 12, 13, 15}, "PlaneFillGridSimpleBlending",
         "testPlaneFillGridSimpleBlending", "expectedPlaneFillGridSimpleBlending",
         "fill_grid", [use_interp_simple |-> TRUE]>>,
       <<"VERT", 0..480, "SphereFillHoles",
         "testSphereFillHoles", "expectedSphereFillHoles",
         "fill_holes", [sides |-> 9]>>,
       <<"VERT", {5, 16, 17, 19, 20, 22, 23, 34, 47, 49, 50, 52, 59, 61, 62, 65, 83, 91, 95}, "CubeInset",
         "testCubeInset", "expectedCubeInset",
         "inset", [thickness |-> "0.2"]>>,
       <<"VERT", {5, 16, 17, 19, 20, 22, 23, 34, 47, 49, 50, 52, 59, 61, 62, 65, 83, 91, 95}, "CubeInsetEvenOffsetFalse",
         "testCubeInsetEvenOffsetFalse", "expectedCubeInsetEvenOffsetFalse",
         "inset", [thickness |-> "0.2", use_even_offset |-> FALSE]>>,
       <<"VERT", {5, 16, 17, 19, 20, 22, 23, 34, 47, 49, 50, 52, 59, 61, 62, 65, 83, 91, 95}, "CubeInsetDepth",
         "testCubeInsetDepth", "expectedCubeInsetDepth",
         "inset", [thickness |-> "0.2", depth |-> "0.2"]>>,
       <<"FACE", {35, 36, 37, 45, 46, 47, 55, 56, 57}, "GridInsetRelativeOffset",
         "testGridInsetRelativeOffset", "expectedGridInsetRelativeOffset",
         "inset", [thickness |-> "0.4", use_relative_offset |-> TRUE]>>
    >>

\* OperatorTest(tests): the object main() builds from the table.  The class
\* lives in modules/mesh_test.py; main() only stores the table in it and
\* writes its apply_modifiers attribute.
OperatorTest(table) == [tests |-> table, apply_modifiers |-> "default"]

RUN_ALL_TESTS == "--run-all-tests"
RUN_TEST      == "--run-test"

\* The arguments main() is run with: argv[0], then up to MaxArgs arguments.
ArgTokens == {RUN_ALL_TESTS, RUN_TEST, "CubeBisect", "--background"}
ArgLists ==
    { <<"blender">> \o s : s \in UNION { [1..n -> ArgTokens] : n \in 0..MaxArgs } }

\* command[k] for the 0-based index k.
At(command, k) == command[k + 1]

\* A faulty variant of NameIndex: the name is read from the flag's own position.
NameIndex_same(k) == k

\* name = command[i + 1]
NameIndex(k) == k + 1

\* A faulty variant of AfterCall: no break, the loop goes on to the next argument.
AfterCall_continue(k) == [pc |-> "loop", i |-> k + 1]

\* break: the loop is left after a runner call.
AfterCall(k) == [pc |-> "done", i |-> k]

\* if cmd == "--run-all-tests": operators_test.run_all_tests(); break
MainRunAll ==
    /\ pc = "loop"
    /\ i < Len(argv)
    /\ At(argv, i) = RUN_ALL_TESTS
    /\ calls' = Append(calls, [fn |-> "run_all_tests", name |-> ""])
    /\ pc' = AfterCall(i).pc
    /\ i' = AfterCall(i).i
    /\ UNCHANGED <<argv, operators_test>>

\* elif cmd == "--run-test": apply_modifiers = False; name = command[i + 1];
\* operators_test.run_test(name); break
MainRunTest ==
    /\ pc = "loop"
    /\ i < Len(argv)
    /\ At(argv, i) = RUN_TEST
    /\ operators_test' = [operators_test EXCEPT !.apply_modifiers = "False"]
    /\ IF NameIndex(i) < Len(argv)
       THEN /\ calls' = Append(calls, [fn |-> "run_test", name |-> At(argv, NameIndex(i))])
            /\ pc' = AfterCall(i).pc
            /\ i' = AfterCall(i).i
       ELSE \* IndexError: list index out of range
            /\ pc' = "error"
            /\ UNCHANGED <<calls, i>>
    /\ UNCHANGED argv

\* any other argument: the next iteration
MainSkip ==
    /\ pc = "loop"
    /\ i < Len(argv)
    /\ At(argv, i) \notin {RUN_ALL_TESTS, RUN_TEST}
    /\ i' = i + 1
    /\ UNCHANGED <<argv, pc, calls, operators_test>>

\* the arguments are exhausted: main() returns
MainEnd ==
    /\ pc = "loop"
    /\ i = Len(argv)
    /\ pc' = "done"
    /\ UNCHANGED <<argv, i, calls, operators_test>>

\* The panel is not part of the test script's run.
NoPanel ==
    /\ menus = <<>>
    /\ active_group = 0
    /\ active_item = <<>>
    /\ expanded = FALSE
    /\ items = <<>>
    /\ keymaps = <<>>
    /\ last = [op |-> "none", idname |-> "", ensure |-> FALSE, raised |-> FALSE]
    /\ ret = <<>>
    /\ ui = [head |-> <<>>, pref |-> <<>>, body |-> <<>>, editor |-> <<>>]
    /\ before = [active_group |-> 0, active_item |-> <<>>, expanded |-> FALSE,
                 menus |-> <<>>, items |-> <<>>, keymaps |-> <<>>]

InitMain ==
    /\ argv \in ArgLists
    /\ operators_test = OperatorTest(tests)
    /\ pc = "loop"
    /\ i = 0
    /\ calls = <<>>
    /\ NoPanel

NextMain ==
    \/ MainRunAll /\ UNCHANGED uiVars
    \/ MainRunTest /\ UNCHANGED uiVars
    \/ MainSkip /\ UNCHANGED uiVars
    \/ MainEnd /\ UNCHANGED uiVars

SpecMain == InitMain /\ [][NextMain]_vars

(***************************************************************************)
(*              src/release/scripts/modules/rna_user_menus_ui.py           *)
(***************************************************************************)

\* One layout call: the widget kind w, what it shows a (a label's text, a
\* property "<object>.<field>", an operator's idname), the object obj it is
\* bound to or drawn for, the index and the value handed to it.
Ev(w, a, obj, index, val) ==
    [w |-> w, a |-> a, obj |-> obj, index |-> index, val |-> val]

Label(text)            == Ev("label", text, <<>>, -1, FALSE)
Prop(field, obj)       == Ev("prop", field, obj, -1, FALSE)
Operator(op, obj, idx) == Ev("operator", op, obj, idx, FALSE)

\* ---- the host's accessors, used by the panel ----

\* user_menus.get_current_menu() for the active group g: the menu of the
\* selected space and context, or None.
get_current_menu(g) == menus[g].cm

\* user_menus.has_item(): whether the current menu holds an item.
has_item(g) == menus[g].cm.exists /\ Len(menus[g].cm.menu_items) > 0

\* item.get_submenu().items_list
get_submenu(item) == [items_list |-> items[item].sub]

\* ---- get_keymap ----

CALL_USER_MENU == "wm.call_user_menu"

\* A faulty variant of KmiMatches: the operator of the keymap item is not looked at.
KmiMatches_any_operator(kmi, idname) == kmi.properties.name = idname

\* if kmi.idname == "wm.call_user_menu": if kmi.properties.name == idname
KmiMatches(kmi, idname) ==
    /\ kmi.idname = CALL_USER_MENU
    /\ kmi.properties.name = idname

RECURSIVE ScanKeymaps(_, _, _, _)
\* for km in keymaps: for kmi in km.keymap_items: ... return kmi
\* from keymap k, item j on; the position <<k, j>> found, or <<>>.
ScanKeymaps(kms, k, j, idname) ==
    IF k > Len(kms) THEN <<>>
    ELSE IF j > Len(kms[k].keymap_items) THEN ScanKeymaps(kms, k + 1, 1, idname)
    ELSE IF KmiMatches(kms[k].keymap_items[j], idname) THEN <<k, j>>
    ELSE ScanKeymaps(kms, k, j + 1, idname)

\* keymaps['Window']
WindowKeymap(kms) == CHOOSE k \in 1..Len(kms) : kms[k].name = "Window"

\* km.keymap_items.new("wm.call_user_menu", 'NONE', 'ANY', ...), then
\* kmi.properties.idname = idname and kmi.active = True.  The new item's
\* properties.name keeps the operator's default.
NewKmi(idname) ==
    [idname |-> CALL_USER_MENU, type |-> "NONE", value |-> "ANY",
     map_type |-> "KEYBOARD", active |-> TRUE,
     properties |-> [name |-> "", idname |-> idname]]

\* get_keymap(context, idname, ensure) with active group g on keymaps kms:
\* the item returned (its position, <<>> for None) and the keymaps after.
get_keymap(kms, g, idname, ensure) ==
    LET id    == IF idname = "" THEN menus[g].idname ELSE idname
        found == ScanKeymaps(kms, 1, 1, id)
        w     == WindowKeymap(kms)
    IN  IF found # <<>> THEN [ret |-> found, keymaps |-> kms]
        ELSE IF ensure
        THEN [ret |-> <<w, Len(kms[w].keymap_items) + 1>>,
              keymaps |-> [kms EXCEPT ![w].keymap_items = Append(@, NewKmi(id))]]
        ELSE [ret |-> <<>>, keymaps |-> kms]

\* ---- draw_button, draw_item ----

\* A faulty variant of IsSelectedValue: the flag is left as it was.
IsSelectedValue_stale(item) == items[item].is_selected

\* item.is_selected = item == um.active_item
IsSelectedValue(item) == item = active_item

\* A faulty variant of SlotButtons: the index is not looked at.
SlotButtons_any_index(g, index) == menus[g].type = "PIE"

\* if um.active_group.type == "PIE" and index >= 0
SlotButtons(g, index) == menus[g].type = "PIE" /\ index >= 0

RECURSIVE draw_button(_, _, _)
RECURSIVE draw_item(_, _)

\* draw_button(context, box, item, index), for the active group g
draw_button(g, item, index) ==
    <<Ev("prop", "item.is_selected", item, index, IsSelectedValue(item))>>
    \o (IF items[item].type = "SUBMENU"
        THEN (IF SlotButtons(g, index)
              THEN << Operator("preferences.pie_menuitem_add", item, index),
                      Operator("preferences.menuitem_remove", item, index),
                      Operator("preferences.menuitem_up", item, index),
                      Operator("preferences.menuitem_down", item, index) >>
              ELSE <<>>)
             \o draw_item(g, get_submenu(item).items_list)
        ELSE <<>>)

\* draw_item(context, box, items): for umi in items: draw_button(.., umi, -1)
draw_item(g, list) ==
    IF list = <<>> THEN <<>>
    ELSE draw_button(g, Head(list), -1) \o draw_item(g, Tail(list))

\* draw_item_box(context, row)
draw_item_box(g) ==
    (IF ~has_item(g)
     THEN <<Label("none")>>
     ELSE draw_item(g, get_current_menu(g).menu_items))
    \o << Operator("preferences.menuitem_add", <<>>, -1),
          Operator("preferences.menuitem_remove", <<>>, -1),
          Operator("preferences.menuitem_up", <<>>, -1),
          Operator("preferences.menuitem_down", <<>>, -1) >>

\* draw_pie_item(context, col, items, label, index)
draw_pie_item(g, item, label, index) ==
    <<Label(label)>> \o draw_button(g, item, index)

\* draw_pie(context, row)
draw_pie(g) ==
    LET cm == get_current_menu(g)
    IN  IF ~cm.exists THEN <<>>
        ELSE    draw_pie_item(g, cm.menu_items[1], "Left : ", 0)
             \o draw_pie_item(g, cm.menu_items[2], "Right : ", 1)
             \o draw_pie_item(g, cm.menu_items[3], "Down : ", 2)
             \o draw_pie_item(g, cm.menu_items[4], "Up : ", 3)
             \o draw_pie_item(g, cm.menu_items[5], "Upper left : ", 4)
             \o draw_pie_item(g, cm.menu_items[6], "Upper right : ", 5)
             \o draw_pie_item(g, cm.menu_items[7], "Lower left : ", 6)
             \o draw_pie_item(g, cm.menu_items[8], "Lower right : ", 7)

\* ---- draw_item_editor ----

\* A faulty variant of ShowsIconAndName: a separator gets the fields too.
ShowsIconAndName_always(type) == TRUE

\* if (current.type != "SEPARATOR")
ShowsIconAndName(type) == type # "SEPARATOR"

\* draw_item_editor(context, row)
draw_item_editor(g) ==
    LET current == active_item
        type    == items[current].type
    IN  IF ~has_item(g)
        THEN << Label("No item in this list."),
                Label("Add one or choose another list to get started") >>
        ELSE IF current # <<>>
        THEN    <<Prop("item.type", current)>>
             \o (IF ShowsIconAndName(type)
                 THEN <<Prop("item.icon", current), Prop("item.name", current)>>
                 ELSE <<>>)
             \o (IF type = "OPERATOR"
                 THEN << Prop("operator.operator", current),
                         Ev("template", "user_menu_item_properties", current, -1, FALSE) >>
                 ELSE <<>>)
             \o (IF type = "MENU"
                 THEN <<Prop("menu.id_name", current)>>
                 ELSE <<>>)
             \o (IF type = "PROPERTY"
                 THEN <<Prop("property.id_name", current), Prop("property.context", current)>>
                 ELSE <<>>)
        ELSE <<Label("No item selected.")>>

\* ---- draw_user_menu_preference ----

\* draw_user_menu_preference_expanded(context, layout, kmi, map_type);
\* kmi is the keymap item's position in kms, <<>> for None.
draw_user_menu_preference_expanded(kms, kmi, map_type) ==
    IF kmi # <<>>
    THEN IF map_type \notin {"TEXTINPUT", "TIMER"}
         THEN    (IF map_type = "KEYBOARD"
                  THEN << Prop("kmi.type", kmi), Prop("kmi.value", kmi),
                          Ev("prop", "kmi.repeat", kmi, -1,
                             kms[kmi[1]].keymap_items[kmi[2]].value \in {"ANY", "PRESS"}) >>
                  ELSE IF map_type \in {"MOUSE", "NDOF"}
                  THEN <<Prop("kmi.type", kmi), Prop("kmi.value", kmi)>>
                  ELSE <<>>)
              \o << Prop("kmi.any", kmi), Prop("kmi.shift", kmi), Prop("kmi.ctrl", kmi),
                    Prop("kmi.alt", kmi), Prop("kmi.oskey", kmi),
                    Prop("kmi.key_modifier", kmi) >>
         ELSE <<>>
    ELSE <<Label("No key set")>>

\* A faulty variant of PrefKeymapCall: the panel asks for the item to be created.
PrefKeymapCall_ensure(kms, g) == get_keymap(kms, g, "", TRUE)

\* kmi = get_keymap(context, None, False)
PrefKeymapCall(kms, g) == get_keymap(kms, g, "", FALSE)

\* draw_user_menu_preference(context, layout), given the result kmi of its
\* get_keymap call on kms
draw_user_menu_preference(kms, g, kmi) ==
    LET map_type == IF kmi # <<>> THEN kms[kmi[1]].keymap_items[kmi[2]].map_type ELSE "None"
    IN     <<Prop("um.expanded", <<>>)>>
        \o (IF g # 1
            THEN << Prop("group.name", <<g>>),
                    Ev("prop", "group.type", <<g>>, -1, menus[g].type = "PIE") >>
            ELSE <<>>)
        \o (IF kmi # <<>>
            THEN    <<Prop("kmi.map_type", kmi)>>
                 \o (IF map_type \in {"KEYBOARD", "MOUSE", "NDOF", "TIMER"}
                     THEN <<Prop("kmi.type", kmi)>>
                     ELSE IF map_type = "TWEAK"
                     THEN <<Prop("kmi.type", kmi), Prop("kmi.value", kmi)>>
                     ELSE <<Label("")>>)
            ELSE <<>>)
        \o (IF expanded
            THEN draw_user_menu_preference_expanded(kms, kmi, map_type)
            ELSE <<>>)

\* ---- draw_user_menus ----

\* A faulty variant of EnsureActiveGroup: an unset active group is left unset.
EnsureActiveGroup_skip(g) == g

\* if not um.active_group: um.active_group = um.menus[0]
EnsureActiveGroup(g) == IF g = 0 THEN 1 ELSE g

\* The layout calls of draw_user_menus(context, layout) once the active
\* group is g and the keymap lookup on kms has returned kmi.
draw_user_menus(kms, g, kmi) ==
    [head   |-> << Ev("menu", "USERPREF_MT_menu_select", <<g>>, -1, FALSE),
                   Operator("preferences.usermenus_add", <<>>, -1),
                   Operator("preferences.usermenus_remove", <<>>, -1),
                   Prop("um.space_selected", <<>>),
                   Prop("um.context_selected", <<>>) >>,
     pref   |-> draw_user_menu_preference(kms, g, kmi),
     body   |-> IF menus[g].type = "PIE" THEN draw_pie(g) ELSE draw_item_box(g),
     editor |-> draw_item_editor(g)]

RECURSIVE ApplyWrites(_, _, _)
\* The item store after the is_selected assignments of the draw_button
\* calls among the layout calls events[k..], applied in order.
ApplyWrites(store, events, k) ==
    IF k > Len(events) THEN store
    ELSE ApplyWrites(IF events[k].a = "item.is_selected"
                     THEN [store EXCEPT ![events[k].obj].is_selected = events[k].val]
                     ELSE store,
                     events, k + 1)

\* The host state, as kept in before.
HostState ==
    [active_group |-> active_group, active_item |-> active_item,
     expanded |-> expanded, menus |-> menus, items |-> items, keymaps |-> keymaps]

\* What the last operation was: its name, the arguments of a get_keymap
\* call, and whether it ended in an exception.
Called(op, idname, ensure, raised) ==
    [op |-> op, idname |-> idname, ensure |-> ensure, raised |-> raised]

\* One redraw of the panel: draw_user_menus(context, layout).  With no
\* active group after the fallback, um.active_group.name raises.
DrawUserMenus ==
    LET g   == EnsureActiveGroup(active_group)
        res == PrefKeymapCall(keymaps, g)
        out == draw_user_menus(res.keymaps, g, res.ret)
    IN  /\ Len(menus) >= 1
        /\ before' = HostState
        /\ active_group' = g
        /\ IF g = 0
           THEN /\ last' = Called("draw_user_menus", "", FALSE, TRUE)
                /\ UNCHANGED <<keymaps, ret, ui, items>>
           ELSE /\ last' = Called("draw_user_menus", "", FALSE, FALSE)
                /\ keymaps' = res.keymaps
                /\ ret' = res.ret
                /\ ui' = out
                /\ items' = ApplyWrites(items, out.body, 1)
        /\ UNCHANGED <<menus, active_item, expanded>>

\* The keymap items of the user keyconfig, counted.
RECURSIVE KmiCount(_)
KmiCount(kms) ==
    IF kms = <<>> THEN 0 ELSE Len(Head(kms).keymap_items) + KmiCount(Tail(kms))

\* One call get_keymap(context, idname, ensure) with a group to fall back on.
GetKeymap(idname, ensure) ==
    LET res == get_keymap(keymaps, active_group, idname, ensure)
    IN  /\ idname # "" \/ active_group # 0
        /\ ensure => KmiCount(keymaps) < MaxKmi
        /\ before' = HostState
        /\ last' = Called("get_keymap", idname, ensure, FALSE)
        /\ ret' = res.ret
        /\ keymaps' = res.keymaps
        /\ UNCHANGED <<menus, active_group, active_item, expanded, items, ui>>

\* get_keymap with no idname and no active group: um.active_group.idname
\* raises on None.
GetKeymapNoGroup(ensure) ==
    /\ active_group = 0
    /\ before' = HostState
    /\ last' = Called("get_keymap", "", ensure, TRUE)
    /\ ret' = <<>>
    /\ UNCHANGED <<hostVars, ui>>

(***************************************************************************)
(* The host states the panel is applied to.                                *)
(***************************************************************************)

PieSlots == 8    \* a pie menu has menu_items[0] .. menu_items[7]

ItemTypes == <<"OPERATOR", "MENU", "SUBMENU", "PROPERTY", "SEPARATOR">>

MapTypes == {"KEYBOARD", "TWEAK", "MOUSE", "NDOF", "TEXTINPUT", "TIMER"}

IdNames == <<"USER_MT_a", "USER_MT_b", "USER_MT_c", "USER_MT_d">>

\* A menu item is named by its place: <<g, k>> is item k of the current menu
\* of group g, Append(p, j) is item j of the submenu of item p.

RECURSIVE SampleCode(_)
\* The first item of a submenu has its parent's type, the next ones the
\* types that follow it in ItemTypes, so that submenus nest.
SampleCode(p) ==
    IF Len(p) = 2 THEN p[2]
    ELSE SampleCode(SubSeq(p, 1, Len(p) - 1)) + p[Len(p)] - 1

\* The type of item p in the type table v.
SampleType(p, v) == ItemTypes[((SampleCode(p) + v) % Len(ItemTypes)) + 1]

\* The items_list of item p: empty below MaxDepth levels of nesting.
SampleSub(p, v) ==
    IF SampleType(p, v) = "SUBMENU" /\ Len(p) - 2 < MaxDepth
    THEN [j \in 1..MaxSub |-> Append(p, j)]
    ELSE <<>>

RECURSIVE SampleTree(_, _)
\* Item p and the items nested in it.
SampleTree(p, v) ==
    {p} \cup UNION { SampleTree(SampleSub(p, v)[j], v) : j \in 1..Len(SampleSub(p, v)) }

NoMenu == [exists |-> FALSE, menu_items |-> <<>>]

\* The groups: group pie (if any) is a pie menu, the others are lists of n
\* items; group nocm (if any) has no menu for the selected space/context.
SampleMenus(pie, nocm, n) ==
    [g \in 1..MaxGroups |->
        [idname |-> IdNames[g],
         type   |-> IF g = pie THEN "PIE" ELSE "LIST",
         cm     |-> IF g = nocm THEN NoMenu
                    ELSE [exists |-> TRUE,
                          menu_items |-> [k \in 1..(IF g = pie THEN PieSlots ELSE n)
                                            |-> <<g, k>>]]]]

SamplePaths(ms, v) ==
    UNION { UNION { SampleTree(ms[g].cm.menu_items[k], v) :
                      k \in 1..Len(ms[g].cm.menu_items) } :
              g \in 1..Len(ms) }

SampleItems(ms, v, sel) ==
    [p \in SamplePaths(ms, v) |->
        [type |-> SampleType(p, v), is_selected |-> sel, sub |-> SampleSub(p, v)]]

\* A keymap item the host holds: not made by get_keymap.
SampleKmi(op, name, map_type) ==
    [idname |-> op, type |-> "A", value |-> "PRESS",
     map_type |-> map_type, active |-> TRUE,
     properties |-> [name |-> name, idname |-> ""]]

SampleKeymaps(screen, window) ==
    << [name |-> "Screen", keymap_items |-> screen],
       [name |-> "Window", keymap_items |-> window] >>

KmiChoices ==
    { SampleKmi(op, IdNames[g], "KEYBOARD") :
        op \in {CALL_USER_MENU, "wm.call_menu"}, g \in 1..MaxGroups }

KmiLists == UNION { [1..n -> KmiChoices] : n \in 0..MaxKmi0 }

\* The test script is not part of the panel's run.
NoMain ==
    /\ argv = <<>>
    /\ pc = "off"
    /\ i = 0
    /\ calls = <<>>
    /\ operators_test = OperatorTest(<<>>)

NoCall ==
    /\ last = Called("none", "", FALSE, FALSE)
    /\ ret = <<>>
    /\ ui = [head |-> <<>>, pref |-> <<>>, body |-> <<>>, editor |-> <<>>]
    /\ before = HostState

\* Menus of every shape, with the keymaps that matter to a redraw.
InitDraw ==
    /\ NoMain
    /\ \E pie \in 0..MaxGroups, nocm \in 0..MaxGroups, n \in 0..MaxList,
          v \in 0..(Len(ItemTypes) - 1), sel \in BOOLEAN :
          /\ menus = SampleMenus(pie, nocm, n)
          /\ items = SampleItems(menus, v, sel)
    /\ active_group \in 0..MaxGroups
    /\ active_item \in {<<>>} \cup DOMAIN items
    /\ expanded = FALSE
    /\ \E bound \in BOOLEAN :
          keymaps = SampleKeymaps(<<>>,
                       IF bound
                       THEN [g \in 1..MaxGroups |->
                               SampleKmi(CALL_USER_MENU, IdNames[g], "KEYBOARD")]
                       ELSE <<>>)
    /\ NoCall

NextDraw == DrawUserMenus /\ UNCHANGED mainVars

SpecDraw == InitDraw /\ [][NextDraw]_vars

\* Keymaps of every shape, with one plain list menu per group.
InitKeymap ==
    /\ NoMain
    /\ menus = SampleMenus(0, 0, 1)
    /\ items = SampleItems(menus, 0, FALSE)
    /\ active_group \in 0..MaxGroups
    /\ active_item = <<>>
    /\ \/ /\ expanded = FALSE
          /\ \E screen \in KmiLists, window \in KmiLists :
                /\ Len(screen) + Len(window) <= MaxKmi0
                /\ keymaps = SampleKeymaps(screen, window)
       \/ /\ expanded \in BOOLEAN
          /\ \E mt \in MapTypes :
                keymaps = SampleKeymaps(<<>>, <<SampleKmi(CALL_USER_MENU, IdNames[1], mt)>>)
    /\ NoCall

NextKeymap ==
    \/ /\ \E idname \in {""} \cup { menus[g].idname : g \in 1..Len(menus) },
             ensure \in BOOLEAN : GetKeymap(idname, ensure)
       /\ UNCHANGED mainVars
    \/ /\ \E ensure \in BOOLEAN : GetKeymapNoGroup(ensure)
       /\ UNCHANGED mainVars
    \/ DrawUserMenus /\ UNCHANGED mainVars

SpecKeymap == InitKeymap /\ [][NextKeymap]_vars

(***************************************************************************)
(*                     Properties of operators.py                          *)
(***************************************************************************)

Flags == {RUN_ALL_TESTS, RUN_TEST}

\* main() has returned or raised.
Final == pc \in {"done", "error"}

HasFlag == \E k \in 1..Len(argv) : argv[k] \in Flags

\* The place in argv of the first argument that is one of the two flags.
FirstFlag ==
    CHOOSE k \in 1..Len(argv) :
        argv[k] \in Flags /\ \A j \in 1..(k - 1) : argv[j] \notin Flags

\* What holds of every run whatever the first flag is: no runner call
\* without a flag, one run_all_tests() for --run-all-tests, never two calls,
\* and the scan stops at the flag that made the call.
DispatchCommon ==
    /\ Len(calls) <= 1
    /\ calls # <<>> => pc = "done" /\ HasFlag /\ i = FirstFlag - 1
    /\ Final /\ ~HasFlag => calls = <<>>
    /\ Final /\ HasFlag /\ argv[FirstFlag] = RUN_ALL_TESTS
          => calls = <<[fn |-> "run_all_tests", name |-> ""]>>

\* C1, as stated: main() acts on the first of the two flags only;
\* --run-all-tests calls run_all_tests() once, --run-test calls run_test(name)
\* once with the argument that follows it, for every argument list; at most
\* one runner call is made, and none when neither flag occurs.
C1_AsStated ==
    /\ DispatchCommon
    /\ Final /\ HasFlag /\ argv[FirstFlag] = RUN_TEST
          => /\ FirstFlag < Len(argv)
             /\ calls = <<[fn |-> "run_test", name |-> argv[FirstFlag + 1]]>>

\* C1, amended: as C1, but --run-test calls run_test(name) once only when an
\* argument follows it; when --run-test is the last argument no runner call
\* is made.
C1_Dispatch ==
    /\ DispatchCommon
    /\ Final /\ HasFlag /\ argv[FirstFlag] = RUN_TEST /\ FirstFlag < Len(argv)
          => calls = <<[fn |-> "run_test", name |-> argv[FirstFlag + 1]]>>
    /\ Final /\ HasFlag /\ argv[FirstFlag] = RUN_TEST /\ FirstFlag = Len(argv)
          => calls = <<>>

\* A run whose test name is itself a flag, with a further flag after it.
C1_Witness ==
    /\ pc = "done"
    /\ Len(calls) = 1
    /\ calls[1].fn = "run_test"
    /\ calls[1].name \in Flags
    /\ FirstFlag + 1 < Len(argv)
    /\ argv[Len(argv)] \in Flags

\* C2: the dispatch ends in an index error exactly when the first flag is
\* --run-test and it is the last argument, and then run_test is never called;
\* every other argument list ends without an error.
C2_OnlyFailure ==
    /\ pc \in {"loop", "done", "error"}
    /\ Final => (pc = "error" <=>
                    HasFlag /\ argv[FirstFlag] = RUN_TEST /\ FirstFlag = Len(argv))
    /\ pc = "error" => \A k \in 1..Len(calls) : calls[k].fn # "run_test"

\* A run that ends in the index error after skipping other arguments.
C2_Witness ==
    /\ pc = "error"
    /\ Len(argv) >= 3
    /\ argv[Len(argv)] = RUN_TEST
    /\ calls = <<>>

IsMode(x)     == x \in {"VERT", "EDGE", "FACE"}
IsIndexSet(s) == \A x \in s : x \in Nat
IsName(x)     == x \in STRING
IsMapping(m)  == \A k \in DOMAIN m : k \in STRING

\* C5, as stated: every entry of the table is a tuple of exactly six fields:
\* selection mode, index set, test name, expected-result name, operator name,
\* parameter mapping.
C5_AsStated ==
    pc # "off" =>
        \A k \in 1..Len(operators_test.tests) :
            LET t == operators_test.tests[k]
            IN  /\ Len(t) = 6
                /\ IsMode(t[1])
                /\ IsIndexSet(t[2])
                /\ IsName(t[3]) /\ IsName(t[4]) /\ IsName(t[5])
                /\ IsMapping(t[6])

\* C5, amended: every entry of the table is a tuple of exactly seven fields:
\* selection mode (VERT, EDGE or FACE), index set, case name, test name,
\* expected-result name, operator name, parameter mapping.
C5_TableShape ==
    pc # "off" =>
        \A k \in 1..Len(operators_test.tests) :
            LET t == operators_test.tests[k]
            IN  /\ Len(t) = 7
                /\ IsMode(t[1])
                /\ IsIndexSet(t[2])
                /\ IsName(t[3]) /\ IsName(t[4]) /\ IsName(t[5]) /\ IsName(t[6])
                /\ IsMapping(t[7])

\* The table has been handed to OperatorTest and a runner has been called.
C5_Witness ==
    /\ pc = "done"
    /\ calls # <<>>
    /\ Len(operators_test.tests) > 1
    /\ \E k \in 1..Len(operators_test.tests) : operators_test.tests[k][7] # <<>>

(***************************************************************************)
(*                  Properties of rna_user_menus_ui.py                     *)
(***************************************************************************)

Range(s) == { s[k] : k \in 1..Len(s) }

\* The last operation was a redraw of the panel.
Drew == last.op = "draw_user_menus"

\* The draw_button calls of the last redraw, and the items they drew.
Buttons == { e \in Range(ui.body) : e.a = "item.is_selected" }
Drawn   == { e.obj : e \in Buttons }

\* C3: after a redraw the active group is menus[0] if it was unset and is
\* the group it was otherwise, so it is set and is one of menus.
C3_DefaultGroup ==
    Drew =>
        /\ ~last.raised
        /\ before.active_group = 0 => active_group = 1
        /\ before.active_group # 0 => active_group = before.active_group
        /\ active_group \in 1..Len(menus)

\* A redraw that found no active group and drew the first group's pie.
C3_Witness ==
    /\ Drew
    /\ before.active_group = 0
    /\ active_group = 1
    /\ menus[1].type = "PIE"
    /\ ui.body # <<>>

\* C4, as stated: after a redraw the host's preference, menu-group,
\* menu-item and keymap data are what they were before it.
C4_AsStated == Drew => HostState = before

\* C4, amended: a redraw leaves the menu groups, the items' types and
\* submenus, the active item, the expanded flag and every keymap as they
\* were; it writes only the active group (menus[0] when it was unset) and
\* the is_selected flag of items it draws.
C4_DrawFrame ==
    Drew =>
        /\ menus = before.menus
        /\ keymaps = before.keymaps
        /\ active_item = before.active_item
        /\ expanded = before.expanded
        /\ \/ active_group = before.active_group
           \/ before.active_group = 0 /\ active_group = 1
        /\ DOMAIN items = DOMAIN before.items
        /\ \A p \in DOMAIN items :
              /\ items[p].type = before.items[p].type
              /\ items[p].sub = before.items[p].sub
              /\ items[p].is_selected # before.items[p].is_selected => p \in Drawn

\* A redraw that set the active group, changed is_selected flags and looked
\* up a keymap item.
C4_Witness ==
    /\ Drew
    /\ active_group # before.active_group
    /\ items # before.items
    /\ ret # <<>>

\* The fields the item editor shows for an item of type t.
EditorFields(t) ==
    {"item.type"}
    \cup (IF t # "SEPARATOR" THEN {"item.icon", "item.name"} ELSE {})
    \cup (IF t = "OPERATOR" THEN {"operator.operator", "user_menu_item_properties"} ELSE {})
    \cup (IF t = "MENU" THEN {"menu.id_name"} ELSE {})
    \cup (IF t = "PROPERTY" THEN {"property.id_name", "property.context"} ELSE {})

\* C6: the item editor draws only the two 'no item' labels when the current
\* menu has no item, only 'No item selected.' when it has items and no
\* active item, and otherwise the fields of the active item's type: type
\* always, icon and name unless SEPARATOR, operator and its properties box
\* for OPERATOR, the menu ID name for MENU, id_name and context for PROPERTY.
C6_ItemEditor ==
    Drew =>
        /\ ~has_item(active_group)
              => ui.editor = << Label("No item in this list."),
                                Label("Add one or choose another list to get started") >>
        /\ has_item(active_group) /\ active_item = <<>>
              => ui.editor = <<Label("No item selected.")>>
        /\ has_item(active_group) /\ active_item # <<>>
              => /\ \A e \in Range(ui.editor) : e.w # "label" /\ e.obj = active_item
                 /\ { e.a : e \in Range(ui.editor) } = EditorFields(items[active_item].type)
                 /\ Len(ui.editor) = Cardinality(EditorFields(items[active_item].type))

\* A redraw with a SEPARATOR as the active item: the type field alone.
C6_Witness ==
    /\ Drew
    /\ has_item(active_group)
    /\ active_item # <<>>
    /\ items[active_item].type = "SEPARATOR"
    /\ Len(ui.editor) = 1

\* C9: after a redraw every item of the active group's current menu, nested
\* ones included, has been drawn and has is_selected true exactly when it is
\* the active item; at most one drawn item is selected, none without an
\* active item.
C9_Selection ==
    Drew =>
        /\ Drawn = { p \in DOMAIN items : p[1] = active_group }
        /\ \A p \in Drawn : items[p].is_selected <=> p = active_item
        /\ Cardinality({ p \in Drawn : items[p].is_selected }) <= 1
        /\ active_item = <<>> => \A p \in Drawn : ~items[p].is_selected

\* A redraw whose active item is nested two submenus deep, and which cleared
\* the flag of another item.
C9_Witness ==
    /\ Drew
    /\ active_item \in Drawn
    /\ Len(active_item) >= 4
    /\ items[active_item].is_selected
    /\ \E q \in Drawn : before.items[q].is_selected /\ ~items[q].is_selected

PieLabels ==
    << "Left : ", "Right : ", "Down : ", "Up : ",
       "Upper left : ", "Upper right : ", "Lower left : ", "Lower right : " >>

SlotOperators ==
    { "preferences.pie_menuitem_add", "preferences.menuitem_remove",
      "preferences.menuitem_up", "preferences.menuitem_down" }

IsLabel(e)     == e.w = "label"
IsTopButton(e) == e.a = "item.is_selected" /\ Len(e.obj) = 2

\* C10: a pie group with a current menu draws its eight slots in the fixed
\* order, each under its label and with its slot index, and nothing without
\* a current menu; a list group draws the items of the current menu in list
\* order, or 'none'.  The per-slot buttons are drawn for the top-level
\* SUBMENU slots of a pie group and for nothing else; nested items are drawn
\* with index -1.
C10_Layout ==
    Drew =>
        LET g      == active_group
            cm     == menus[g].cm
            body   == ui.body
            labels == SelectSeq(body, IsLabel)
            tops   == SelectSeq(body, IsTopButton)
        IN  /\ menus[g].type = "PIE" /\ cm.exists
               => /\ Len(tops) = 8 /\ Len(labels) = 8
                  /\ \A k \in 1..8 :
                        /\ labels[k] = Label(PieLabels[k])
                        /\ tops[k].obj = cm.menu_items[k]
                        /\ tops[k].index = k - 1
                  /\ \A k \in 1..Len(body) :
                        IsLabel(body[k]) => k < Len(body) /\ IsTopButton(body[k + 1])
                  /\ \A p \in Drawn :
                        Len(p) = 2 /\ items[p].type = "SUBMENU"
                        => { e.a : e \in { d \in Range(body) : d.w = "operator" /\ d.obj = p } }
                              = SlotOperators
            /\ menus[g].type = "PIE" /\ ~cm.exists => body = <<>>
            /\ menus[g].type # "PIE" /\ has_item(g)
               => /\ labels = <<>>
                  /\ Len(tops) = Len(cm.menu_items)
                  /\ \A k \in 1..Len(tops) : tops[k].obj = cm.menu_items[k]
            /\ menus[g].type # "PIE" /\ ~has_item(g)
               => body[1] = Label("none") /\ Drawn = {}
            /\ \A e \in Range(body) :
                  /\ e.w = "operator" /\ e.obj # <<>>
                     => /\ menus[g].type = "PIE"
                        /\ Len(e.obj) = 2
                        /\ items[e.obj].type = "SUBMENU"
                        /\ e.index = e.obj[2] - 1
                  /\ e.a = "item.is_selected" /\ Len(e.obj) > 2 => e.index = -1

\* A redraw of a pie whose slot holds a submenu with a submenu nested in it.
C10_Witness ==
    /\ Drew
    /\ menus[active_group].type = "PIE"
    /\ \E p \in Drawn : Len(p) = 3 /\ items[p].type = "SUBMENU"
    /\ \E e \in Range(ui.body) : e.a = "preferences.pie_menuitem_add" /\ e.index = 7

\* The places of the keymap items of kms.
Positions(kms) ==
    UNION { { <<k, j>> : j \in 1..Len(kms[k].keymap_items) } : k \in 1..Len(kms) }

KmiAt(kms, pos) == kms[pos[1]].keymap_items[pos[2]]

\* The items of kms that call the user menu named idname.
CallsUserMenu(kms, idname) ==
    { pos \in Positions(kms) :
        /\ KmiAt(kms, pos).idname = "wm.call_user_menu"
        /\ KmiAt(kms, pos).properties.name = idname }

\* The items of kms that get_keymap made for idname.
MadeFor(kms, idname) ==
    { pos \in Positions(kms) : KmiAt(kms, pos).properties.idname = idname }

\* Keymap order, then item order.
NotAfter(p, q) == p[1] < q[1] \/ (p[1] = q[1] /\ p[2] <= q[2])

\* The idname the last get_keymap call looked for.
Requested ==
    IF last.idname = "" THEN menus[active_group].idname ELSE last.idname

\* C7: get_keymap(context, idname, ensure=True), called again with the same
\* non-empty idname, returns the item the earlier call made and adds none.
C7_EnsureOnce ==
    (/\ last.op = "get_keymap"
     /\ last.ensure
     /\ last.idname # ""
     /\ MadeFor(before.keymaps, last.idname) # {})
    => /\ ret \in MadeFor(before.keymaps, last.idname)
       /\ keymaps = before.keymaps

\* C8: get_keymap returns the first item, in keymap order then item order,
\* that calls wm.call_user_menu with properties.name equal to the idname
\* asked for (the active group's when none is given); with no such item and
\* ensure false it returns None and leaves the keymaps as they were; a
\* redraw calls it that way and adds no keymap item.
C8_Lookup ==
    /\ (last.op \in {"get_keymap", "draw_user_menus"} /\ ~last.raised)
       => LET found == CallsUserMenu(before.keymaps, Requested)
          IN  /\ found # {} => ret \in found /\ \A m \in found : NotAfter(ret, m)
              /\ found = {} /\ ~last.ensure => ret = <<>> /\ keymaps = before.keymaps
    /\ Drew => keymaps = before.keymaps

\* A lookup by the active group's idname with two items to choose from.
C8_Witness ==
    /\ last.op = "get_keymap"
    /\ last.idname = ""
    /\ ~last.raised
    /\ ret # <<>>
    /\ \E m \in CallsUserMenu(before.keymaps, Requested) : m # ret

====
